---- MODULE Spec2Model ----
(***************************************************************************)
(* Model of hacking/module_formatter.py: the inline markup translators     *)
(* (rst_ify, html_ify), module discovery (list_modules), the per-module    *)
(* pipeline (process_module), the category writer (process_category) and   *)
(* main.  Strings are sequences of one-character strings, so that the      *)
(* regular expressions, split("/") and find(".") act on characters.        *)
(***************************************************************************)
EXTENDS Integers, Sequences, FiniteSets, TLC

VARIABLES
    spec,            \* which entry point of the file is being exercised
    options,         \* optparse result (main, line 317)
    fs,              \* the file system under options.module_dir
    docstrings,      \* what get_docstring yields for the path of a file
    pc,              \* position in main / in the exercised function
    categories,      \* list_modules result (line 322)
    category_names,  \* sorted category names (lines 324-325)
    ci,              \* index of the category main's loop is at (line 334)
    modules,         \* sorted module names of the category (lines 270-271)
    mi,              \* index of the module process_category's loop is at
    files,           \* output files: path -> [open, lines]
    stdout,          \* what was printed
    stderr,          \* diagnostics and tracebacks
    exit_code,       \* <<>> while running, then <<the exit status>>
    trace,           \* process_module calls made so far, with their outcome
    text,            \* input of rst_ify / html_ify
    t,               \* the local t of rst_ify / html_ify
    applied,         \* marker kinds substituted so far
    doc              \* the doc mapping process_module works on

vars == <<spec, options, fs, docstrings, pc, categories, category_names, ci,
          modules, mi, files, stdout, stderr, exit_code, trace, text, t, applied, doc>>

\* Python None, where a string is expected and where a doc mapping is
NoneStr == <<"None">>
None == [None |-> TRUE]

-----------------------------------------------------------------------------
(* Strings                                                                 *)

\* the backquote character (a string literal cannot hold it)
BackQuote == "bq"

\* ASCII codes of the characters used, for the string ordering of Python
Ord(c) ==
    CASE c = " " -> 32  [] c = "&" -> 38 [] c = "'" -> 39 [] c = "(" -> 40
      [] c = ")" -> 41  [] c = "*" -> 42 [] c = "." -> 46 [] c = "/" -> 47
      [] c = ";" -> 59  [] c = "<" -> 60 [] c = "=" -> 61 [] c = ">" -> 62
      [] c = "B" -> 66  [] c = "C" -> 67 [] c = "I" -> 73 [] c = "M" -> 77
      [] c = "U" -> 85  [] c = "_" -> 95 [] c = BackQuote -> 96
      [] c = "a" -> 97  [] c = "b" -> 98 [] c = "c" -> 99 [] c = "d" -> 100
      [] c = "e" -> 101 [] c = "f" -> 102 [] c = "g" -> 103 [] c = "h" -> 104
      [] c = "l" -> 108 [] c = "m" -> 109 [] c = "n" -> 110 [] c = "o" -> 111
      [] c = "p" -> 112 [] c = "r" -> 114 [] c = "s" -> 115 [] c = "t" -> 116
      [] c = "u" -> 117 [] c = "x" -> 120 [] c = "y" -> 121 [] c = "z" -> 122
      [] OTHER -> 127

RECURSIVE StrLess(_, _)
\* s < t on Python byte strings
StrLess(s, u) ==
    IF u = <<>> THEN FALSE
    ELSE IF s = <<>> THEN TRUE
    ELSE IF Ord(Head(s)) # Ord(Head(u)) THEN Ord(Head(s)) < Ord(Head(u))
    ELSE StrLess(Tail(s), Tail(u))

RECURSIVE SortedDescending(_)
\* a sort with the comparison the wrong way round
SortedDescending(S) ==
    IF S = {} THEN <<>>
    ELSE LET m == CHOOSE x \in S : \A y \in S \ {x} : StrLess(y, x)
         IN <<m>> \o SortedDescending(S \ {m})

RECURSIVE Sorted(_)
\* list.sort() applied to the keys of a dict: the keys in ascending order
Sorted(S) ==
    IF S = {} THEN <<>>
    ELSE LET m == CHOOSE x \in S : \A y \in S \ {x} : StrLess(x, y)
         IN <<m>> \o Sorted(S \ {m})

RECURSIVE Find(_, _, _)
\* s.find(c) counted from position i: first index of c, or -1
Find(s, c, i) ==
    IF i > Len(s) THEN -1
    ELSE IF s[i] = c THEN i
    ELSE Find(s, c, i + 1)

RECURSIVE Split(_, _)
\* s.split(sep) for a one-character separator
Split(s, sep) ==
    LET i == Find(s, sep, 1)
    IN IF i = -1 THEN <<s>>
       ELSE <<SubSeq(s, 1, i - 1)>> \o Split(SubSeq(s, i + 1, Len(s)), sep)

Range(s) == {s[i] : i \in 1..Len(s)}

-----------------------------------------------------------------------------
(* The file system and list_modules                                        *)

Slash == <<"/">>
Join(d, name) == d \o Slash \o name

\* a glob whose * also matches names that start with a dot
GlobAll(d) ==
    LET pre == d \o Slash
    IN { e.path : e \in { x \in fs :
            /\ Len(x.path) > Len(pre)
            /\ SubSeq(x.path, 1, Len(pre)) = pre
            /\ Find(x.path, "/", Len(pre) + 1) = -1 } }

\* glob.glob("%s/*" % d): the entries directly under d whose name does not
\* start with a dot
Glob(d) ==
    LET pre == d \o Slash
    IN { e.path : e \in { x \in fs :
            /\ Len(x.path) > Len(pre)
            /\ SubSeq(x.path, 1, Len(pre)) = pre
            /\ Find(x.path, "/", Len(pre) + 1) = -1
            /\ x.path[Len(pre) + 1] # "." } }

isdir(p) == \E e \in fs : e.path = p /\ e.isdir
exists(p) == \E e \in fs : e.path = p

list_modules(module_dir) ==
    LET files2 == UNION { Glob(d) : d \in { x \in Glob(module_dir) : isdir(x) } }
        tokens(f) == Split(f, "/")
        module(f) == tokens(f)[Len(tokens(f))]
        category(f) == tokens(f)[Len(tokens(f)) - 1]
    IN [ c \in { category(f) : f \in files2 } |->
           [ m \in { module(f) : f \in { g \in files2 : category(g) = c } } |->
               CHOOSE f \in files2 : category(f) = c /\ module(f) = m ] ]

-----------------------------------------------------------------------------
(* The markup translators                                                  *)

\* the literal pieces of the html_ify replacements and of cgi.escape
EM_OPEN == <<"<", "e", "m", ">">>
EM_CLOSE == <<"<", "/", "e", "m", ">">>
B_OPEN == <<"<", "b", ">">>
B_CLOSE == <<"<", "/", "b", ">">>
SPAN_OPEN == <<"<", "s", "p", "a", "n", " ", "c", "l", "a", "s", "s", "=", "'", "m", "o", "d", "u", "l", "e", "'", ">">>
SPAN_CLOSE == <<"<", "/", "s", "p", "a", "n", ">">>
A_HREF == <<"<", "a", " ", "h", "r", "e", "f", "=", "'">>
A_MID == <<"'", ">">>
A_CLOSE == <<"<", "/", "a", ">">>
CODE_OPEN == <<"<", "c", "o", "d", "e", ">">>
CODE_CLOSE == <<"<", "/", "c", "o", "d", "e", ">">>
AMP == <<"&", "a", "m", "p", ";">>
LT == <<"&", "l", "t", ";">>
GT == <<"&", "g", "t", ";">>

\* the marker letters of _ITALIC, _BOLD, _MODULE, _URL, _CONST
Kinds == {"I", "B", "M", "U", "C"}

\* what the rst_ify call of re.sub puts in place of a match with group 1 = c
RstRepl(k, c) ==
    CASE k = "I" -> <<"*">> \o c \o <<"*">>
      [] k = "B" -> <<"*", "*">> \o c \o <<"*", "*">>
      [] k = "M" -> <<BackQuote, BackQuote>> \o c \o <<BackQuote, BackQuote>>
      [] k = "U" -> c
      [] k = "C" -> <<BackQuote, BackQuote>> \o c \o <<BackQuote, BackQuote>>

\* what the html_ify call of re.sub puts in place of a match with group 1 = c
HtmlRepl(k, c) ==
    CASE k = "I" -> EM_OPEN \o c \o EM_CLOSE
      [] k = "B" -> B_OPEN \o c \o B_CLOSE
      [] k = "M" -> SPAN_OPEN \o c \o SPAN_CLOSE
      [] k = "U" -> A_HREF \o c \o A_MID \o c \o A_CLOSE
      [] k = "C" -> CODE_OPEN \o c \o CODE_CLOSE

\* The pattern k\(([^)]+)\) matches at i when s[i] = k, s[i+1] = "(", the
\* next character is not ")" and a ")" follows; group 1 runs up to the
\* first ")".  MatchEnd is the index of that ")", or 0 when there is no match.
MatchEnd(k, s, i) ==
    IF /\ i + 2 <= Len(s)
       /\ s[i] = k
       /\ s[i + 1] = "("
       /\ s[i + 2] # ")"
       /\ Find(s, ")", i + 3) # -1
    THEN Find(s, ")", i + 3)
    ELSE 0

RECURSIVE RstSubFrom(_, _, _)
RstSubFrom(k, s, i) ==
    IF i > Len(s) THEN <<>>
    ELSE LET j == MatchEnd(k, s, i)
         IN IF j = 0 THEN <<s[i]>> \o RstSubFrom(k, s, i + 1)
            ELSE RstRepl(k, SubSeq(s, i + 2, j - 1)) \o RstSubFrom(k, s, j + 1)

\* pattern.sub(replacement, s) of rst_ify: the non-overlapping matches, left
\* to right
RstSub(k, s) == RstSubFrom(k, s, 1)

RECURSIVE HtmlSubFrom(_, _, _)
HtmlSubFrom(k, s, i) ==
    IF i > Len(s) THEN <<>>
    ELSE LET j == MatchEnd(k, s, i)
         IN IF j = 0 THEN <<s[i]>> \o HtmlSubFrom(k, s, i + 1)
            ELSE HtmlRepl(k, SubSeq(s, i + 2, j - 1)) \o HtmlSubFrom(k, s, j + 1)

HtmlSub(k, s) == HtmlSubFrom(k, s, 1)

\* rst_ify without the substitution of line 69
rst_ify_without_url(txt) ==
    LET t1 == RstSub("I", txt)
        t2 == RstSub("B", t1)
        t3 == RstSub("M", t2)
        t5 == RstSub("C", t3)
    IN t5

rst_ify(txt) ==
    LET t1 == RstSub("I", txt)
        t2 == RstSub("B", t1)
        t3 == RstSub("M", t2)
        t4 == RstSub("U", t3)
        t5 == RstSub("C", t4)
    IN t5

RECURSIVE Replace(_, _, _)
\* s.replace(c, r) for a one-character c
Replace(s, c, r) ==
    IF s = <<>> THEN <<>>
    ELSE (IF Head(s) = c THEN r ELSE <<Head(s)>>) \o Replace(Tail(s), c, r)

\* cgi.escape(s) without quote: & first, then < and >
escape(s) ==
    LET s1 == Replace(s, "&", AMP)
        s2 == Replace(s1, "<", LT)
        s3 == Replace(s2, ">", GT)
    IN s3

html_ify(txt) ==
    LET t0 == escape(txt)
        t1 == HtmlSub("I", t0)
        t2 == HtmlSub("B", t1)
        t3 == HtmlSub("M", t2)
        t4 == HtmlSub("U", t3)
        t5 == HtmlSub("C", t4)
    IN t5

-----------------------------------------------------------------------------
(* process_module                                                          *)

TO_OLD_TO_BE_NOTABLE == 1

Historical == <<"h", "i", "s", "t", "o", "r", "i", "c", "a", "l">>
MODULE_RST == <<"_", "m", "o", "d", "u", "l", "e", ".", "r", "s", "t">>

\* ansible.utils.module_docs.BLACKLIST_MODULES: the modules that may lack
\* documentation
BLACKLIST_MODULES == {<<"b">>}

basename(fname) == LET tk == Split(fname, "/") IN tk[Len(tk)]

\* ansible.utils.module_docs.get_docstring(fname): the doc mapping of the
\* file, or None
get_docstring(fname) == docstrings[fname]

Digits == {"0", "1", "9"}

\* str(added) for the values yaml gives version_added: a string, a float
\* or an int (float and int are kept by their repr)
str(v) == v.repr

\* the truth value Python gives the value in "if added:"
Truthy(v) ==
    CASE v.ty = "str" -> v.repr # <<>>
      [] v.ty = "float" -> \E i \in 1..Len(v.repr) : v.repr[i] \in Digits \ {"0"}
      [] v.ty = "int" -> v.repr # <<"0">>

\* float(s) is defined for digits with at most one dot and at least one digit
IsFloatLiteral(s) ==
    /\ Range(s) \subseteq Digits \cup {"."}
    /\ Cardinality({i \in 1..Len(s) : s[i] = "."}) <= 1
    /\ \E i \in 1..Len(s) : s[i] \in Digits

DigitVal(c) == CASE c = "0" -> 0 [] c = "1" -> 1 [] c = "9" -> 9

RECURSIVE ParseInt(_)
\* the number a string of digits denotes (0 for the empty string)
ParseInt(s) ==
    IF s = <<>> THEN 0
    ELSE 10 * ParseInt(SubSeq(s, 1, Len(s) - 1)) + DigitVal(s[Len(s)])

\* float(s) < TO_OLD_TO_BE_NOTABLE for a float literal s without sign: the
\* fraction is below one, so the integer part decides
FloatBelowThreshold(s) == ParseInt(Split(s, ".")[1]) < TO_OLD_TO_BE_NOTABLE

DelKey(d, k) == [x \in DOMAIN d \ {k} |-> d[x]]
SetKey(d, k, v) == [x \in DOMAIN d \cup {k} |-> IF x = k THEN v ELSE d[x]]

\* lines 225-237: [ok |-> FALSE] when an exception is raised
StripVersion(d) ==
    IF d["version_added"] = [ty |-> "str", repr |-> Historical]
    THEN [ok |-> TRUE, doc |-> DelKey(d, "version_added")]
    ELSE LET added == d["version_added"]
         IN IF ~Truthy(added) THEN [ok |-> TRUE, doc |-> d]
            ELSE LET added_tokens == Split(str(added), ".")
                 IN IF Len(added_tokens) < 2
                    THEN [ok |-> FALSE, doc |-> d]     \* IndexError
                    ELSE LET added2 == added_tokens[1] \o <<".">> \o added_tokens[2]
                         IN IF ~IsFloatLiteral(added2)
                            THEN [ok |-> FALSE, doc |-> d]   \* ValueError
                            ELSE IF FloatBelowThreshold(added2)
                                 THEN [ok |-> TRUE, doc |-> DelKey(d, "version_added")]
                                 ELSE [ok |-> TRUE, doc |-> d]

\* lines 239-248: the derived fields
Derive(d, fname) ==
    LET d1 == SetKey(d, "option_keys", Sorted(d["options"]))
        d2 == SetKey(d1, "filename", fname)
        d3 == SetKey(d2, "docuri", Replace(d["module"], "_", <<"-">>))
        d4 == SetKey(d3, "now_date", "today")
        d5 == SetKey(d4, "ansible_version", options.ansible_version)
        d6 == SetKey(d5, "plainexamples", "examples")
    IN d6

\* process_module without the exit of lines 213-215
process_module_without_exit(module, module_map) ==
    LET fname == module_map[module]
        d == get_docstring(fname)
    IN IF Find(basename(fname), ".", 1) # -1
       THEN [result |-> "ignored", doc |-> None]
       ELSE IF d = None
       THEN [result |-> "SKIPPED", doc |-> None]
       ELSE IF "version_added" \notin DOMAIN d
       THEN [result |-> "exit", doc |-> None]
       ELSE LET sv == StripVersion(d)
            IN IF ~sv.ok \/ "options" \notin DOMAIN sv.doc
               THEN [result |-> "exception", doc |-> None]
               ELSE [result |-> "rendered", doc |-> Derive(sv.doc, fname)]

\* process_module with a bare return at line 217
process_module_bare_return(module, module_map) ==
    LET fname == module_map[module]
        d == get_docstring(fname)
    IN IF Find(basename(fname), ".", 1) # -1
       THEN [result |-> "ignored", doc |-> None]
       ELSE IF d = None /\ module \notin BLACKLIST_MODULES
       THEN [result |-> "exit", doc |-> None]
       ELSE IF d = None
       THEN [result |-> "ignored", doc |-> None]
       ELSE IF "version_added" \notin DOMAIN d
       THEN [result |-> "exit", doc |-> None]
       ELSE LET sv == StripVersion(d)
            IN IF ~sv.ok \/ "options" \notin DOMAIN sv.doc
               THEN [result |-> "exception", doc |-> None]
               ELSE [result |-> "rendered", doc |-> Derive(sv.doc, fname)]

\* process_module up to the render: what the call does and, when it gets
\* there, the record handed to the template
\*   "ignored"   line 207, returns None
\*   "exit"      sys.exit(1) at line 215 or 223
\*   "SKIPPED"   line 217
\*   "exception" an uncaught exception of lines 233-239
\*   "rendered"  line 252-253, returns None
process_module(module, module_map) ==
    LET fname == module_map[module]
        d == get_docstring(fname)
    IN IF Find(basename(fname), ".", 1) # -1
       THEN [result |-> "ignored", doc |-> None]
       ELSE IF d = None /\ module \notin BLACKLIST_MODULES
       THEN [result |-> "exit", doc |-> None]
       ELSE IF d = None
       THEN [result |-> "SKIPPED", doc |-> None]
       ELSE IF "version_added" \notin DOMAIN d
       THEN [result |-> "exit", doc |-> None]
       ELSE LET sv == StripVersion(d)
            IN IF ~sv.ok \/ "options" \notin DOMAIN sv.doc
               THEN [result |-> "exception", doc |-> None]
               ELSE [result |-> "rendered", doc |-> Derive(sv.doc, fname)]

\* outputname % module, with outputname = "%s_module.rst" (line 191)
outputname(module) == module \o MODULE_RST

\* write_data: the file it writes, or None when it prints
PageFile(module) ==
    IF options.output_dir # NoneStr
    THEN Join(options.output_dir, outputname(module))
    ELSE NoneStr

-----------------------------------------------------------------------------
(* main, process_category                                                  *)

\* string literals of main and process_category
MODULES_BY_CATEGORY == <<"m", "o", "d", "u", "l", "e", "s", "_", "b", "y", "_", "c", "a", "t", "e", "g", "o", "r", "y", ".", "r", "s", "t">>
LIST_OF == <<"l", "i", "s", "t", "_", "o", "f", "_">>
MODULES_RST == <<"_", "m", "o", "d", "u", "l", "e", "s", ".", "r", "s", "t">>
MODULES == <<"_", "m", "o", "d", "u", "l", "e", "s">>
UNDERSCORE_MODULE == <<"_", "m", "o", "d", "u", "l", "e">>
INDENT == <<" ", " ", " ", " ">>
NL == <<"\n">>
SPACE_MODULES == <<" ", "M", "o", "d", "u", "l", "e", "s">>
MODULE_INDEX == <<"M", "o", "d", "u", "l", "e", " ", "I", "n", "d", "e", "x", "\n">>
INDEX_RULE == <<"=", "=", "=", "=", "=", "=", "=", "=", "=", "=", "=", "=", "\n">>
TOCTREE == <<".", ".", " ", "t", "o", "c", "t", "r", "e", "e", ":", ":", "\n">>

Upper(c) ==
    CASE c = "a" -> "A" [] c = "b" -> "B" [] c = "c" -> "C" [] c = "d" -> "D"
      [] c = "e" -> "E" [] c = "n" -> "N" [] c = "t" -> "T" [] OTHER -> c

IsAlpha(c) == Upper(c) # c \/ c \in {"A", "B", "C", "D", "E", "N", "T"}

\* str.title() of a lower-case string: the first letter of every word in
\* upper case
title(s) ==
    [i \in 1..Len(s) |->
        IF i = 1 \/ ~IsAlpha(s[i - 1]) THEN Upper(s[i]) ELSE s[i]]

\* the paths main and process_category open under options.output_dir; None
\* when os.path.join raises because output_dir is None
category_list_path ==
    IF options.output_dir = NoneStr THEN NoneStr
    ELSE Join(options.output_dir, MODULES_BY_CATEGORY)

category_file_path(category) ==
    IF options.output_dir = NoneStr THEN NoneStr
    ELSE Join(options.output_dir, LIST_OF \o category \o MODULES_RST)

\* the lines written to the listings
IndexEntry(category) == INDENT \o LIST_OF \o category \o MODULES \o NL
ListingEntry(module) == INDENT \o module \o UNDERSCORE_MODULE \o NL

category_header(category) ==
    title(title(Replace(category, "_", <<" ">>))) \o SPACE_MODULES

Write(f, path, chunks) ==
    [f EXCEPT ![path] = [closed |-> FALSE, writes |-> @.writes \o chunks]]

Open(f, path) ==
    [p \in DOMAIN f \cup {path} |->
        IF p = path THEN [closed |-> FALSE, writes |-> <<>>] ELSE f[p]]

Close(f, path) == [f EXCEPT ![path].closed = TRUE]

Terminated == exit_code # <<>>

\* validate_options (lines 294-309), called by main at line 318
ValidateOptions ==
    /\ spec = "main" /\ pc = "validate_options" /\ ~Terminated
    /\ IF options.do_boilerplate
       THEN /\ stdout' = Append(stdout, [kind |-> "boilerplate"])
            /\ exit_code' = <<0>>
            /\ UNCHANGED <<stderr, pc>>
       ELSE IF options.module_dir = <<>>
       THEN /\ stderr' = Append(stderr, [kind |-> "--module-dir is required"])
            /\ exit_code' = <<1>>
            /\ UNCHANGED <<stdout, pc>>
       ELSE IF ~exists(options.module_dir)
       THEN /\ stderr' = Append(stderr, [kind |-> "--module-dir does not exist"])
            /\ exit_code' = <<1>>
            /\ UNCHANGED <<stdout, pc>>
       ELSE IF options.template_dir = <<>>
       THEN /\ stdout' = Append(stdout, [kind |-> "--template-dir must be specified"])
            /\ exit_code' = <<1>>
            /\ UNCHANGED <<stderr, pc>>
       ELSE /\ pc' = "jinja2_environment"
            /\ UNCHANGED <<stdout, stderr, exit_code>>
    /\ UNCHANGED <<spec, options, fs, docstrings, categories, category_names,
                   ci, modules, mi, files, trace, text, t, applied, doc>>

\* a test of line 185 that lets every type through
KnownTypeAny(typ) == typ \in {"html", "latex", "man", "rst", "json", "markdown", "js"}

\* the test of line 185
KnownType(typ) == typ = "rst"

\* jinja2_environment (lines 176-195), called by main at line 320
Jinja2Environment ==
    /\ spec = "main" /\ pc = "jinja2_environment" /\ ~Terminated
    /\ IF KnownType(options.type)
       THEN /\ pc' = "list_modules"
            /\ UNCHANGED <<stderr, exit_code>>
       ELSE /\ stderr' = Append(stderr, [kind |-> "Exception",
                                         msg |-> "unknown module format type",
                                         arg |-> options.type])
            /\ exit_code' = <<1>>
            /\ UNCHANGED pc
    /\ UNCHANGED <<spec, options, fs, docstrings, categories, category_names,
                   ci, modules, mi, files, stdout, trace, text, t, applied, doc>>

\* main, lines 322-325
ListModules ==
    /\ spec = "main" /\ pc = "list_modules" /\ ~Terminated
    /\ categories' = list_modules(options.module_dir)
    /\ category_names' = Sorted(DOMAIN categories')
    /\ pc' = "open_index"
    /\ UNCHANGED <<spec, options, fs, docstrings, ci, modules, mi, files,
                   stdout, stderr, exit_code, trace, text, t, applied, doc>>

\* main, lines 327-332
OpenIndex ==
    /\ spec = "main" /\ pc = "open_index" /\ ~Terminated
    /\ IF category_list_path = NoneStr
       THEN /\ stderr' = Append(stderr, [kind |-> "AttributeError"])
            /\ exit_code' = <<1>>
            /\ UNCHANGED <<files, pc, ci>>
       ELSE /\ files' = Write(Open(files, category_list_path), category_list_path,
                              <<MODULE_INDEX, INDEX_RULE, <<"\n", "\n">>, TOCTREE>>)
            /\ ci' = 1
            /\ pc' = "categories"
            /\ UNCHANGED <<stderr, exit_code>>
    /\ UNCHANGED <<spec, options, fs, docstrings, categories, category_names,
                   modules, mi, stdout, trace, text, t, applied, doc>>

\* main, line 335, and process_category up to its loop (lines 259-280)
StartCategory ==
    /\ spec = "main" /\ pc = "categories" /\ ~Terminated
    /\ ci <= Len(category_names)
    /\ LET category == category_names[ci]
           header == category_header(category)
       IN /\ files' = Write(Open(Write(files, category_list_path,
                                       <<IndexEntry(category)>>),
                                 category_file_path(category)),
                            category_file_path(category),
                            <<header, <<"\n">>,
                              [i \in 1..Len(header) |-> BackQuote], <<"\n">>,
                              TOCTREE>>)
          /\ stdout' = Append(stdout, [kind |-> "recording", category |-> category,
                                       path |-> category_file_path(category)])
          /\ modules' = Sorted(DOMAIN categories[category])
    /\ mi' = 1
    /\ pc' = "modules"
    /\ UNCHANGED <<spec, options, fs, docstrings, categories, category_names,
                   ci, stderr, exit_code, trace, text, t, applied, doc>>

\* one iteration of the loop of process_category (lines 282-285): the call
\* of process_module (lines 199-253, write_data included) and the listing
\* entry
ProcessModule ==
    /\ spec = "main" /\ pc = "modules" /\ ~Terminated
    /\ mi <= Len(modules)
    /\ LET category == category_names[ci]
           module == modules[mi]
           r == process_module(module, categories[category])
           out == Append(stdout, [kind |-> "rendering", module |-> module])
       IN /\ trace' = Append(trace, [category |-> category, module |-> module,
                                     fname |-> categories[category][module],
                                     result |-> r.result])
          /\ doc' = r.doc
          /\ CASE r.result = "exit" ->
                    /\ stderr' = Append(stderr, [kind |-> "*** ERROR", module |-> module])
                    /\ exit_code' = <<1>>
                    /\ stdout' = out
                    /\ UNCHANGED <<files, mi>>
               [] r.result = "exception" ->
                    /\ stderr' = Append(stderr, [kind |-> "traceback", module |-> module])
                    /\ exit_code' = <<1>>
                    /\ stdout' = out
                    /\ UNCHANGED <<files, mi>>
               [] r.result = "SKIPPED" ->
                    /\ stdout' = out
                    /\ mi' = mi + 1
                    /\ UNCHANGED <<files, stderr, exit_code>>
               [] r.result = "ignored" ->
                    /\ stdout' = out
                    /\ files' = Write(files, category_file_path(category),
                                      <<ListingEntry(module)>>)
                    /\ mi' = mi + 1
                    /\ UNCHANGED <<stderr, exit_code>>
               [] r.result = "rendered" ->
                    /\ IF PageFile(module) # NoneStr
                       THEN /\ files' = Write(Close(Write(Open(files, PageFile(module)),
                                                          PageFile(module), <<r.doc>>),
                                                    PageFile(module)),
                                              category_file_path(category),
                                              <<ListingEntry(module)>>)
                            /\ stdout' = out
                       ELSE /\ files' = Write(files, category_file_path(category),
                                              <<ListingEntry(module)>>)
                            /\ stdout' = Append(out, [kind |-> "page", text |-> r.doc])
                    /\ mi' = mi + 1
                    /\ UNCHANGED <<stderr, exit_code>>
    /\ UNCHANGED <<spec, options, fs, docstrings, categories, category_names,
                   ci, modules, pc, text, t, applied>>

\* process_category, line 288, and the return to the loop of main
CloseCategory ==
    /\ spec = "main" /\ pc = "modules" /\ ~Terminated
    /\ mi > Len(modules)
    /\ files' = Close(files, category_file_path(category_names[ci]))
    /\ ci' = ci + 1
    /\ pc' = "categories"
    /\ UNCHANGED <<spec, options, fs, docstrings, categories, category_names,
                   modules, mi, stdout, stderr, exit_code, trace, text, t,
                   applied, doc>>

\* main, line 338
CloseIndex ==
    /\ spec = "main" /\ pc = "categories" /\ ~Terminated
    /\ ci > Len(category_names)
    /\ files' = Close(files, category_list_path)
    /\ exit_code' = <<0>>
    /\ UNCHANGED <<spec, options, fs, docstrings, categories, category_names,
                   ci, modules, mi, pc, stdout, stderr, trace, text, t,
                   applied, doc>>

-----------------------------------------------------------------------------
(* Inputs                                                                  *)

Root == <<"r">>
Db == <<"d", "b">>
Net == <<"n", "e", "t">>

Dir(p) == [path |-> p, isdir |-> TRUE]
File(p) == [path |-> p, isdir |-> FALSE]

\* module file names of the runs: one with an extension and two plain
\* names, of which b is exempt from documentation
RunModules == {<<"a", ".", "p">>, <<"b">>, <<"c">>}

\* the trees of the runs: any of the module files under db, any of the plain
\* ones under net
RunTrees ==
    { {Dir(Root), Dir(Join(Root, Db)), Dir(Join(Root, Net))}
        \cup {File(Join(Join(Root, Db), m)) : m \in ma}
        \cup {File(Join(Join(Root, Net), m)) : m \in mb}
      : ma \in SUBSET RunModules, mb \in SUBSET {<<"b">>, <<"c">>} }

DocOk ==
    [module |-> <<"m", "_", "n">>,
     version_added |-> [ty |-> "str", repr |-> <<"1", ".", "0">>],
     options |-> {<<"b">>, <<"a">>}]
DocNoVersion == DelKey(DocOk, "version_added")
DocNoOptions == DelKey(DocOk, "options")

RunDocs == {None, DocOk, DocNoVersion, DocNoOptions}

\* the command lines: every type and output directory, with at most one of
\* the defects validate_options looks for
RunOptions ==
    { o \in [type : {"rst", "latex"},
             output_dir : {NoneStr, <<"o">>},
             do_boilerplate : BOOLEAN,
             module_dir : {<<>>, Root, <<"q">>},
             template_dir : {<<>>, <<"t">>},
             ansible_version : {"unknown"}] :
        Cardinality({d \in {"G", "M", "T"} :
            \/ d = "G" /\ o.do_boilerplate
            \/ d = "M" /\ o.module_dir # Root
            \/ d = "T" /\ o.template_dir = <<>>}) <= 1 }

NoOptions ==
    [type |-> "rst", output_dir |-> <<"o">>, do_boilerplate |-> FALSE,
     module_dir |-> Root, template_dir |-> <<"t">>, ansible_version |-> "unknown"]

\* the trees list_modules is tried on: every parent-closed set of these
\* entries under the root
ListEntries ==
    {File(Join(Root, <<"x">>)),
     Dir(Join(Root, Db)), Dir(Join(Root, Net)), Dir(Join(Root, <<".", "h">>)),
     File(Join(Join(Root, Db), <<"a">>)),
     Dir(Join(Join(Root, Db), <<"d">>)),
     File(Join(Join(Join(Root, Db), <<"d">>), <<"z">>)),
     File(Join(Join(Root, Db), <<".", "g">>)),
     File(Join(Join(Root, Net), <<"a">>)),
     File(Join(Join(Root, <<".", "h">>), <<"a">>))}

RECURSIVE LastSlash(_, _)
LastSlash(p, i) == IF i = 0 \/ p[i] = "/" THEN i ELSE LastSlash(p, i - 1)
dirname(p) == SubSeq(p, 1, LastSlash(p, Len(p)) - 1)

ListTrees ==
    { {Dir(Root)} \cup S : S \in { X \in SUBSET ListEntries :
          \A e \in X : dirname(e.path) = Root \/ Dir(dirname(e.path)) \in X } }

RECURSIVE Flatten(_)
Flatten(ps) == IF ps = <<>> THEN <<>> ELSE Head(ps) \o Flatten(Tail(ps))

\* the texts the translators are tried on: up to MaxPieces of these pieces
MaxPieces == 4
Pieces ==
    {<<"I">>, <<"B">>, <<"M">>, <<"U">>, <<"C">>,
     <<"(">>, <<")">>, <<"x">>, <<"(", "x", ")">>}
Texts ==
    { Flatten(ps) : ps \in UNION { [1..n -> Pieces] : n \in 0..MaxPieces } }

MaxHtmlPieces == 5
HtmlPieces ==
    {<<"I", "(">>, <<"B", "(">>, <<"U", "(">>,
     <<")">>, <<"x">>, <<"<">>, <<">">>, <<"&">>}
HtmlTexts ==
    { Flatten(ps) : ps \in UNION { [1..n -> HtmlPieces] : n \in 0..MaxHtmlPieces } }

\* the values of version_added: dotted numbers of up to MaxVerLen
\* characters, the sentinel, and the numbers yaml reads from an unquoted value
MaxVerLen == 5
VersionStrings ==
    { r \in UNION { [1..n -> Digits \cup {"."}] : n \in 1..MaxVerLen } :
        \A c \in Range(Split(r, ".")) : c # <<>> }
VersionValues ==
    {[ty |-> "str", repr |-> r] : r \in VersionStrings \cup {Historical}}
    \cup {[ty |-> "float", repr |-> <<i, ".", f>>] : i \in Digits, f \in Digits}
    \cup {[ty |-> "int", repr |-> <<i>>] : i \in Digits}

-----------------------------------------------------------------------------
(* Specifications                                                          *)

\* main()
InitMain ==
    /\ spec = "main"
    /\ pc = "validate_options"
    /\ options \in RunOptions
    /\ fs \in RunTrees
    /\ docstrings \in [{e.path : e \in {x \in fs : ~x.isdir}} -> RunDocs]
    /\ categories = <<>>
    /\ doc = None
    /\ text = <<>> /\ t = <<>> /\ applied = {}
    /\ category_names = <<>> /\ ci = 0 /\ modules = <<>> /\ mi = 0
    /\ files = <<>> /\ stdout = <<>> /\ stderr = <<>>
    /\ exit_code = <<>> /\ trace = <<>>

NextMain ==
    \/ ValidateOptions
    \/ Jinja2Environment
    \/ ListModules
    \/ OpenIndex
    \/ StartCategory
    \/ ProcessModule
    \/ CloseCategory
    \/ CloseIndex

Spec == InitMain /\ [][NextMain]_vars

\* list_modules(module_dir) on its own
InitList ==
    /\ spec = "list_modules"
    /\ pc = "call"
    /\ fs \in ListTrees
    /\ categories = <<>>
    /\ options = NoOptions
    /\ docstrings = <<>>
    /\ text = <<>> /\ t = <<>> /\ applied = {}
    /\ doc = None
    /\ category_names = <<>> /\ ci = 0 /\ modules = <<>> /\ mi = 0
    /\ files = <<>> /\ stdout = <<>> /\ stderr = <<>>
    /\ exit_code = <<>> /\ trace = <<>>

CallListModules ==
    /\ spec = "list_modules" /\ pc = "call"
    /\ categories' = list_modules(Root)
    /\ pc' = "return"
    /\ UNCHANGED <<spec, options, fs, docstrings, category_names, ci, modules,
                   mi, files, stdout, stderr, exit_code, trace, text, t,
                   applied, doc>>

SpecList == InitList /\ [][CallListModules]_vars

\* the five substitutions of rst_ify, taken in any order
InitRst ==
    /\ spec = "rst_ify"
    /\ pc = "call"
    /\ text \in Texts
    /\ t = text
    /\ applied = {}
    /\ options = NoOptions
    /\ fs = {}
    /\ docstrings = <<>>
    /\ categories = <<>>
    /\ doc = None
    /\ category_names = <<>> /\ ci = 0 /\ modules = <<>> /\ mi = 0
    /\ files = <<>> /\ stdout = <<>> /\ stderr = <<>>
    /\ exit_code = <<>> /\ trace = <<>>

Substitute(k) ==
    /\ spec = "rst_ify"
    /\ k \notin applied
    /\ t' = RstSub(k, t)
    /\ applied' = applied \cup {k}
    /\ pc' = IF applied' = Kinds THEN "return" ELSE pc
    /\ UNCHANGED <<spec, options, fs, docstrings, categories, category_names,
                   ci, modules, mi, files, stdout, stderr, exit_code, trace,
                   text, doc>>

SubItalic == Substitute("I")
SubBold == Substitute("B")
SubModule == Substitute("M")
SubUrl == Substitute("U")
SubConst == Substitute("C")

NextRst == SubItalic \/ SubBold \/ SubModule \/ SubUrl \/ SubConst

SpecRst == InitRst /\ [][NextRst]_vars

\* html_ify(text)
InitHtml ==
    /\ spec = "html_ify"
    /\ pc = "call"
    /\ text \in HtmlTexts
    /\ t = text
    /\ applied = {}
    /\ options = NoOptions
    /\ fs = {}
    /\ docstrings = <<>>
    /\ categories = <<>>
    /\ doc = None
    /\ category_names = <<>> /\ ci = 0 /\ modules = <<>> /\ mi = 0
    /\ files = <<>> /\ stdout = <<>> /\ stderr = <<>>
    /\ exit_code = <<>> /\ trace = <<>>

HtmlIfy ==
    /\ spec = "html_ify" /\ pc = "call"
    /\ t' = html_ify(text)
    /\ pc' = "return"
    /\ UNCHANGED <<spec, options, fs, docstrings, categories, category_names,
                   ci, modules, mi, files, stdout, stderr, exit_code, trace,
                   text, applied, doc>>

SpecHtml == InitHtml /\ [][HtmlIfy]_vars

\* process_module on one documented module, for every value of version_added
VersionModule == <<"a">>
VersionMap == [m \in {VersionModule} |-> Join(Join(Root, Db), VersionModule)]

InitVersion ==
    /\ spec = "process_module"
    /\ pc = "call"
    /\ \E v \in VersionValues :
          docstrings = [f \in {VersionMap[VersionModule]} |->
                            SetKey(DocOk, "version_added", v)]
    /\ doc = None
    /\ options = NoOptions
    /\ fs = {}
    /\ categories = <<>>
    /\ text = <<>> /\ t = <<>> /\ applied = {}
    /\ category_names = <<>> /\ ci = 0 /\ modules = <<>> /\ mi = 0
    /\ files = <<>> /\ stdout = <<>> /\ stderr = <<>>
    /\ exit_code = <<>> /\ trace = <<>>

CallProcessModule ==
    /\ spec = "process_module" /\ pc = "call"
    /\ LET r == process_module(VersionModule, VersionMap)
       IN /\ doc' = r.doc
          /\ pc' = r.result
    /\ UNCHANGED <<spec, options, fs, docstrings, categories, category_names,
                   ci, modules, mi, files, stdout, stderr, exit_code, trace,
                   text, t, applied>>

SpecVersion == InitVersion /\ [][CallProcessModule]_vars

-----------------------------------------------------------------------------
(* Properties of a run of main                                             *)

HasExtension(module) == Find(module, ".", 1) # -1

\* the module of call i of process_module has no documentation block and
\* is not exempt, or its block lacks version_added
Fatal(i) ==
    \/ /\ docstrings[trace[i].fname] = None
       /\ trace[i].module \notin BLACKLIST_MODULES
    \/ /\ docstrings[trace[i].fname] # None
       /\ "version_added" \notin DOMAIN docstrings[trace[i].fname]

\* the module of call i has no documentation block and is exempt
Exempted(i) ==
    /\ docstrings[trace[i].fname] = None
    /\ trace[i].module \in BLACKLIST_MODULES

\* a page of this module name was written by another call than i
WrittenByOther(i) ==
    \E j \in 1..Len(trace) :
        j # i /\ trace[j].module = trace[i].module /\ trace[j].result = "rendered"

Opened(path) == path \in DOMAIN files

\* what was written to the listing of a category after its three header lines
ListingOf(category) ==
    IF Opened(category_file_path(category))
    THEN SubSeq(files[category_file_path(category)].writes, 6,
                Len(files[category_file_path(category)].writes))
    ELSE <<>>

\* what was written to the global index after its header
IndexWrites ==
    IF Opened(category_list_path)
    THEN SubSeq(files[category_list_path].writes, 5,
                Len(files[category_list_path].writes))
    ELSE <<>>

PagePrinted(module) ==
    \E k \in 2..Len(stdout) :
        /\ stdout[k].kind = "page"
        /\ stdout[k - 1] = [kind |-> "rendering", module |-> module]

\* the run stops at call i of process_module: nothing is processed after it
\* and no listing of a later category exists
StopsAt(i) ==
    /\ i = Len(trace)
    /\ exit_code = <<1>>
    /\ trace[i].result = "exit"
    /\ ~Opened(PageFile(trace[i].module)) \/ WrittenByOther(i)
    /\ \A c \in DOMAIN categories :
          StrLess(trace[i].category, c) => ~Opened(category_file_path(c))

\* C1 as stated: every discovered module that has no documentation block and
\* is not exempt, or whose block lacks version_added, ends the run with exit
\* code 1 when it is reached, and nothing is processed or opened after it.
C1_Original == \A i \in 1..Len(trace) : Fatal(i) => StopsAt(i)

\* C1, amended: the same for every such module whose file name contains no
\* "." (process_module ignores a file with an extension before it looks for
\* documentation).
C1_FailFast ==
    \A i \in 1..Len(trace) :
        Fatal(i) /\ ~HasExtension(trace[i].module) => StopsAt(i)

\* a run stopped by a fatal module while modules and a category were left
C1_Witness ==
    /\ Len(trace) > 0
    /\ Fatal(Len(trace))
    /\ ~HasExtension(trace[Len(trace)].module)
    /\ exit_code = <<1>>
    /\ mi < Len(modules)
    /\ ci < Len(category_names)

\* C2: a module without documentation block that is exempt makes
\* process_module return "SKIPPED"; no page is written for it, its category
\* listing gets no entry for it, and the run goes on with the next module.
C2_ExemptSkipped ==
    \A i \in 1..Len(trace) :
        Exempted(i) =>
            /\ trace[i].result = "SKIPPED"
            /\ ~Opened(PageFile(trace[i].module)) \/ WrittenByOther(i)
            /\ ~PagePrinted(trace[i].module)
            /\ ListingEntry(trace[i].module) \notin Range(ListingOf(trace[i].category))
            /\ i = Len(trace) => exit_code # <<1>>

\* an exempt module was skipped and the module after it was processed
C2_Witness ==
    \E i \in 1..Len(trace) :
        /\ Exempted(i)
        /\ trace[i].result = "SKIPPED"
        /\ i < Len(trace)
        /\ trace[i + 1].category = trace[i].category

Completed == exit_code = <<0>> /\ ~options.do_boilerplate

\* the (category, module) pairs of the discovered mapping
Discovered ==
    { <<c, m>> : c \in DOMAIN categories, m \in RunModules } \cap
    UNION { {<<c, m>> : m \in DOMAIN categories[c]} : c \in DOMAIN categories }

\* process_module calls are in ascending order of category, then of module
TraceAscending ==
    \A i, j \in 1..Len(trace) :
        i < j =>
            \/ StrLess(trace[i].category, trace[j].category)
            \/ /\ trace[i].category = trace[j].category
               /\ StrLess(trace[i].module, trace[j].module)

\* C3: when the run completes, the global index lists every discovered
\* category once, in ascending order; the categories are processed in that
\* order; in each category the modules are processed and listed in ascending
\* order, every page file being closed before the next module starts.
C3_Ordering ==
    Completed =>
        /\ Len(IndexWrites) = Cardinality(DOMAIN categories)
        /\ \A c \in DOMAIN categories : IndexEntry(c) \in Range(IndexWrites)
        /\ \A i, j \in 1..Len(IndexWrites) : \A c, d \in DOMAIN categories :
              i < j /\ IndexWrites[i] = IndexEntry(c) /\ IndexWrites[j] = IndexEntry(d)
                  => StrLess(c, d)
        /\ TraceAscending
        /\ {<<trace[i].category, trace[i].module>> : i \in 1..Len(trace)} = Discovered
        /\ \A c \in DOMAIN categories :
              /\ Opened(category_file_path(c))
              /\ \A i, j \in 1..Len(ListingOf(c)) : \A m, n \in DOMAIN categories[c] :
                    i < j /\ ListingOf(c)[i] = ListingEntry(m)
                          /\ ListingOf(c)[j] = ListingEntry(n)
                        => StrLess(m, n)
              /\ \A i \in 1..Len(ListingOf(c)) :
                    \E m \in DOMAIN categories[c] : ListingOf(c)[i] = ListingEntry(m)
        /\ \A f \in DOMAIN files : files[f].closed

\* a completed run over two categories, one of them with all three modules
C3_Witness ==
    /\ Completed
    /\ Cardinality(DOMAIN categories) = 2
    /\ \E c \in DOMAIN categories :
          /\ DOMAIN categories[c] = RunModules
          /\ Len(ListingOf(c)) >= 2

OptionsValid ==
    /\ ~options.do_boilerplate
    /\ options.module_dir # <<>> /\ exists(options.module_dir)
    /\ options.template_dir # <<>>

NothingProcessed ==
    /\ pc \in {"validate_options", "jinja2_environment"}
    /\ categories = <<>> /\ category_names = <<>>
    /\ trace = <<>>
    /\ files = <<>>
    /\ \A k \in 1..Len(stdout) : stdout[k].kind \notin {"rendering", "recording", "page"}

UnknownFormatError ==
    /\ exit_code = <<1>>
    /\ stderr = <<[kind |-> "Exception", msg |-> "unknown module format type",
                   arg |-> options.type]>>

\* C4 as stated: with a type other than rst the run fails with the unknown
\* module format type error, and nothing is discovered, extracted, rendered,
\* opened or written before that.
C4_Original ==
    options.type # "rst" =>
        /\ NothingProcessed
        /\ Terminated => UnknownFormatError

\* C4, amended: with a type other than rst nothing is ever discovered,
\* extracted, rendered, opened or written, and when the options pass
\* validate_options (no boilerplate request, an existing module directory, a
\* template directory) the run fails with the unknown module format type
\* error.
C4_UnsupportedDialect ==
    options.type # "rst" =>
        /\ NothingProcessed
        /\ Terminated /\ OptionsValid => UnknownFormatError

\* the default type with valid options has failed in jinja2_environment
C4_Witness ==
    /\ options.type = "latex"
    /\ OptionsValid
    /\ pc = "jinja2_environment"
    /\ UnknownFormatError

\* every discovered module has a file name without extension and a complete
\* documentation block
AllRenderable ==
    \A c \in DOMAIN categories : \A m \in DOMAIN categories[c] :
        ~HasExtension(m) /\ docstrings[categories[c][m]] = DocOk

\* C5: with an output directory every rendered page is written to
\* <module>_module.rst under it and is not printed; without an output
\* directory the run prints every module page and creates no module file.
C5_Original ==
    /\ options.output_dir # NoneStr =>
          \A i \in 1..Len(trace) :
              trace[i].result = "rendered" =>
                  /\ Opened(Join(options.output_dir, trace[i].module \o MODULE_RST))
                  /\ ~PagePrinted(trace[i].module)
    /\ options.output_dir = NoneStr /\ options.type = "rst" /\ OptionsValid
         /\ Terminated /\ AllRenderable =>
          /\ \A c \in DOMAIN categories : \A m \in DOMAIN categories[c] : PagePrinted(m)
          /\ \A m \in RunModules : \A d \in {<<"o">>} : ~Opened(Join(d, m \o MODULE_RST))

\* C10: every <module>_module entry of a category listing names a module
\* whose page was written before; a module for which process_module returned
\* without rendering (skipped, or ignored for its extension) has no entry.
C10_Original ==
    /\ \A c \in DOMAIN categories : \A m \in DOMAIN categories[c] :
          ListingEntry(m) \in Range(ListingOf(c)) => Opened(PageFile(m))
    /\ \A i \in 1..Len(trace) :
          trace[i].result \in {"SKIPPED", "ignored"} =>
              ListingEntry(trace[i].module) \notin Range(ListingOf(trace[i].category))

-----------------------------------------------------------------------------
(* Properties of list_modules                                              *)

Depth(p) == Len(Split(p, "/"))

\* the mapping category -> module -> path of a set of root/category/module
\* paths
MappingOf(P) ==
    [ c \in { Split(p, "/")[2] : p \in P } |->
        [ m \in { Split(p, "/")[3] : p \in { q \in P : Split(q, "/")[2] = c } } |->
            Join(Join(Root, c), m) ] ]

SecondLevel == { e.path : e \in { x \in fs : Depth(x.path) = 3 } }

Hidden(name) == name # <<>> /\ name[1] = "."

\* C7 as stated: list_modules returns the mapping of exactly the entries at
\* root/category/module.
C7_Original == pc = "return" => categories = MappingOf(SecondLevel)

\* C7, amended: list_modules returns the mapping of exactly the entries at
\* root/category/module whose category name and module name do not start
\* with "." (glob's * does not match them); entries directly under the root
\* and three levels deep are left out, and an empty root gives {}.
C7_SecondLevel ==
    pc = "return" =>
        /\ categories = MappingOf({ p \in SecondLevel :
                                      /\ ~Hidden(Split(p, "/")[2])
                                      /\ ~Hidden(Split(p, "/")[3]) })
        /\ fs = {Dir(Root)} => categories = <<>>

\* a tree with a file under the root, a file three levels deep and modules
\* in two categories has been listed
C7_Witness ==
    /\ pc = "return"
    /\ File(Join(Root, <<"x">>)) \in fs
    /\ File(Join(Join(Join(Root, Db), <<"d">>), <<"z">>)) \in fs
    /\ DOMAIN categories = {Db, Net}
    /\ DOMAIN categories[Db] = {<<"a">>, <<"d">>}

-----------------------------------------------------------------------------
(* Properties of the translators                                           *)

\* no "(" between a "(" and the next ")"
Flat(s) ==
    \A i, j \in 1..Len(s) :
        i < j /\ s[i] = "(" /\ s[j] = "(" => \E k \in (i + 1)..(j - 1) : s[k] = ")"

\* no ")" directly followed by "("
NoCloseOpen(s) == \A i \in 1..(Len(s) - 1) : ~(s[i] = ")" /\ s[i + 1] = "(")

\* C8 as stated: for every text, the five substitutions of rst_ify taken in
\* any order give the result of the order of the code.
C8_Original == applied = Kinds => t = rst_ify(text)

\* C8, amended: the same for every text in which parentheses do not nest (no
\* "(" between a "(" and the next ")") and no ")" is directly followed by "(".
C8_OrderIndependent ==
    applied = Kinds /\ Flat(text) /\ NoCloseOpen(text) => t = rst_ify(text)

\* all five substitutions were made on a text with markers of two kinds
C8_Witness ==
    /\ applied = Kinds
    /\ Flat(text) /\ NoCloseOpen(text)
    /\ \E k1, k2 \in Kinds :
          k1 # k2 /\ RstSub(k1, text) # text /\ RstSub(k2, text) # text

\* the names of the tags html_ify inserts
EM == <<"e", "m">>
B == <<"b">>
SPAN == <<"s", "p", "a", "n">>
A == <<"a">>
CODE == <<"c", "o", "d", "e">>
TagNames == {EM, B, SPAN, A, CODE}

IsOpener(body) ==
    \/ <<"<">> \o body \o <<">">> \in {EM_OPEN, B_OPEN, SPAN_OPEN, CODE_OPEN}
    \/ /\ Len(body) >= Len(A_HREF)
       /\ <<"<">> \o SubSeq(body, 1, Len(A_HREF) - 1) = A_HREF
       /\ body[Len(body)] = "'"

TagName(body) ==
    IF Find(body, " ", 1) = -1 THEN body ELSE SubSeq(body, 1, Find(body, " ", 1) - 1)

RECURSIVE Balanced(_, _, _)
\* from position i on, every "<" and ">" of s belongs to one of the tags the
\* substitutions insert, and the tags close in the order opposite to the one
\* they open in; stack holds the names of the open tags
Balanced(s, i, stack) ==
    IF i > Len(s) THEN stack = <<>>
    ELSE IF s[i] = ">" THEN FALSE
    ELSE IF s[i] # "<" THEN Balanced(s, i + 1, stack)
    ELSE LET j == Find(s, ">", i + 1)
             body == SubSeq(s, i + 1, j - 1)
         IN IF j = -1 THEN FALSE
            ELSE IF body # <<>> /\ body[1] = "/"
            THEN /\ stack # <<>>
                 /\ Tail(body) \in TagNames
                 /\ stack[Len(stack)] = Tail(body)
                 /\ Balanced(s, j + 1, SubSeq(stack, 1, Len(stack) - 1))
            ELSE /\ IsOpener(body)
                 /\ Balanced(s, j + 1, Append(stack, TagName(body)))

HasMarker(s) == \E k \in Kinds : \E i \in 1..Len(s) : MatchEnd(k, s, i) # 0

\* the text with every & < > written as its entity
Escaped(s) ==
    Flatten([i \in 1..Len(s) |->
        CASE s[i] = "&" -> AMP [] s[i] = "<" -> LT [] s[i] = ">" -> GT
          [] OTHER -> <<s[i]>>])

\* C9: in the output of html_ify every "<" and ">" belongs to a tag put
\* there by a substitution, these tags are opened and closed in matching
\* order, and a text without markers comes out as its escaped form.
C9_Original ==
    pc = "return" =>
        /\ Balanced(t, 1, <<>>)
        /\ ~HasMarker(text) => t = Escaped(text)

-----------------------------------------------------------------------------
(* Properties of the version handling of process_module                    *)

IsNumber(s) == s # <<>> /\ Range(s) \subseteq Digits

\* the number made of the first two dot-separated components of the value
\* exists and is below the threshold
BelowThreshold(v) ==
    LET comps == Split(str(v), ".")
    IN /\ v.repr # Historical
       /\ Len(comps) >= 2
       /\ IsNumber(comps[1]) /\ IsNumber(comps[2])
       /\ ParseInt(comps[1]) < TO_OLD_TO_BE_NOTABLE

\* C6: the record process_module renders has no version_added when the
\* value is historical or its major.minor number is below 1.0, and has the
\* original value otherwise.
C6_Original ==
    pc # "call" =>
        LET v == docstrings[VersionMap[VersionModule]]["version_added"]
        IN /\ pc = "rendered"
           /\ IF v.repr = Historical \/ BelowThreshold(v)
              THEN "version_added" \notin DOMAIN doc
              ELSE /\ "version_added" \in DOMAIN doc
                   /\ doc["version_added"] = v

====
